---------------------------- MODULE Spec2Model ----------------------------
(***************************************************************************)
(* A model of the TIFF codec of rustch/tiff: the writer facade             *)
(* (src/src/writer.rs), the reader facade and directory iterator           *)
(* (src/src/reader.rs), the endian primitives (src/src/endian.rs) and the  *)
(* tag registry and fields (src/src/tag.rs).                               *)
(*                                                                         *)
(* Conventions.                                                            *)
(*  - A byte is a number in 0..255; a byte string is a sequence of bytes.  *)
(*  - Offsets, positions and directory indices are 0-based as in the code; *)
(*    byte k of a stream b is b[k + 1].                                    *)
(*  - A 16-bit word is held as its value (u16: 0..65535, i16: signed).     *)
(*  - A 32-bit word (u32, i32, the bits of an f32) is held as the signed   *)
(*    number with the same bit pattern, because the checker's integers are *)
(*    32 bits wide: a negative w of type u32 stands for w + 2^32.          *)
(*  - A 64-bit word (the bits of an f64) is held as its 8 bytes, most      *)
(*    significant first.                                                   *)
(*  - The host is little-endian (the repository's tests rely on it):       *)
(*    u32::to_bytes gives the least significant byte first.                *)
(***************************************************************************)
EXTENDS Integers, Sequences, FiniteSets, TLC

\* ------------------------------------------------------------------------
\* Bounds of the model
\* ------------------------------------------------------------------------
MaxSets == 2      \* field assignments made to one writer
MaxDirs == 2      \* directories held by one writer

\* ------------------------------------------------------------------------
\* Program constants
\* ------------------------------------------------------------------------
TIFF_LE == 18761  \* 0x4949
TIFF_BE == 19789  \* 0x4D4D
TIFF_MAGIC == 42
ENTRY_SIZE == 12

Endians == {"Big", "Little"}
Builds == {"debug", "release"}

\* ------------------------------------------------------------------------
\* Byte strings
\* ------------------------------------------------------------------------
RECURSIVE Reverse(_)
Reverse(s) == IF s = <<>> THEN <<>> ELSE Reverse(Tail(s)) \o <<Head(s)>>

Zeros(n) == [i \in 1..n |-> 0]

RECURSIVE Concat(_)
Concat(ss) == IF ss = <<>> THEN <<>> ELSE Head(ss) \o Concat(Tail(ss))

\* slice.chunks(n): consecutive pieces of n elements, the last one shorter
RECURSIVE Chunks(_, _)
Chunks(s, n) ==
    IF s = <<>> THEN <<>>
    ELSE IF Len(s) <= n THEN <<s>>
    ELSE <<SubSeq(s, 1, n)>> \o Chunks(SubSeq(s, n + 1, Len(s)), n)

\* ------------------------------------------------------------------------
\* Endian primitives (endian.rs)
\* ------------------------------------------------------------------------
\* the two 16-bit halves of a 32-bit word, as unsigned numbers
Lo16(w) == w % 65536
Hi16(w) == ((w - Lo16(w)) \div 65536) % 65536
Word32(hi, lo) == (IF hi >= 32768 THEN hi - 65536 ELSE hi) * 65536 + lo

\* u16 / i16 <-> [u8; 2]
ShortBytesBE(v) == LET u == v % 65536 IN <<u \div 256, u % 256>>
U16FromBE(b) == b[1] * 256 + b[2]
I16FromBE(b) == LET u == U16FromBE(b) IN IF u >= 32768 THEN u - 65536 ELSE u

\* u32 / i32 <-> [u8; 4]
LongBytesBE(w) == ShortBytesBE(Hi16(w)) \o ShortBytesBE(Lo16(w))
LongFromBE(b) == Word32(U16FromBE(SubSeq(b, 1, 2)), U16FromBE(SubSeq(b, 3, 4)))

byte_adjusted(endian, val) == <<val % 256>>

short_adjusted(endian, val) ==
    IF endian = "Big" THEN ShortBytesBE(val) ELSE Reverse(ShortBytesBE(val))

short_from_bytes(endian, bytes, signed) ==
    LET b == IF endian = "Big" THEN bytes ELSE Reverse(bytes)
    IN  IF signed THEN I16FromBE(b) ELSE U16FromBE(b)

long_adjusted(endian, val) ==
    IF endian = "Big" THEN LongBytesBE(val) ELSE Reverse(LongBytesBE(val))

long_from_bytes(endian, bytes) ==
    LongFromBE(IF endian = "Big" THEN bytes ELSE Reverse(bytes))

longlong_adjusted(endian, val) == IF endian = "Big" THEN val ELSE Reverse(val)

longlong_from_bytes(endian, bytes) ==
    IF endian = "Big" THEN bytes ELSE Reverse(bytes)

\* u32::to_bytes on the host: the memory representation of the word
to_bytes(w) == Reverse(LongBytesBE(w))

\* ------------------------------------------------------------------------
\* Tag registry (tag.rs)
\* ------------------------------------------------------------------------
KnownTagValues ==
    {254, 255, 256, 257, 258, 259, 262, 263, 264, 265, 266, 269, 270, 271,
     272, 273, 274, 277, 278, 279, 280, 281, 282, 283, 284, 285, 286, 287,
     288, 289, 290, 291, 292, 293, 296, 297, 305, 306, 315, 316, 317, 320,
     321, 322, 323, 324, 325, 332, 333, 334, 336, 337, 338, 339, 340, 341,
     342, 512, 513, 514, 515, 517, 518, 519, 520, 521, 529, 530, 531, 769,
     792, 793, 1330, 33432}

\* a well-known variant of enum Tag, and Tag::Unknown(n); the derived
\* PartialEq compares the variant and, for Unknown, the number
Known(n) == [kind |-> "Known", n |-> n]
Unknown(n) == [kind |-> "Unknown", n |-> n]

ImageWidth == Known(256)
XResolution == Known(282)

\* impl From<u16> for Tag
TagFrom(value) == IF value \in KnownTagValues THEN Known(value) ELSE Unknown(value)

\* Tag::tag_value: the numeric identifier of the tag
tag_value(tag) == tag.n

\* impl Hash for Tag: what the tag feeds the Hasher, a well-known tag the
\* integer literal of its number, Unknown the literal 0xFFFF and then its u16
TagHash(tag) ==
    IF tag.kind = "Known" THEN <<[int |-> "i32", n |-> tag.n]>>
    ELSE <<[int |-> "i32", n |-> 65535], [int |-> "u16", n |-> tag.n]>>

\* ------------------------------------------------------------------------
\* Value model (value.rs)
\* ------------------------------------------------------------------------
Val(variant, elems) == [variant |-> variant, elems |-> elems]
Rational(num, denom) == [num |-> num, denom |-> denom]

value_type_id(value) ==
    CASE value.variant = "Byte" -> 1
      [] value.variant = "Ascii" -> 2
      [] value.variant = "Short" -> 3
      [] value.variant = "Long" -> 4
      [] value.variant = "Rational" -> 5
      [] value.variant = "SByte" -> 6
      [] value.variant = "Undefined" -> 7
      [] value.variant = "SShort" -> 8
      [] value.variant = "SLong" -> 9
      [] value.variant = "SRational" -> 10
      [] value.variant = "Float" -> 11
      [] value.variant = "Double" -> 12

\* str::is_ascii
is_ascii(s) == \A i \in 1..Len(s) : s[i] < 128


\* ------------------------------------------------------------------------
\* Writer: encoding of a value (writer.rs, impl TIFFValue)
\* ------------------------------------------------------------------------
RECURSIVE EncodeElems(_, _, _)
EncodeElems(variant, elems, endian) ==
    IF elems = <<>> THEN <<>>
    ELSE LET el == Head(elems)
             b == CASE variant \in {"Short", "SShort"} -> short_adjusted(endian, el)
                    [] variant \in {"Long", "SLong", "Float"} -> long_adjusted(endian, el)
                    [] variant \in {"Rational", "SRational"} ->
                           long_adjusted(endian, el.num) \o long_adjusted(endian, el.denom)
                    [] variant = "SByte" -> byte_adjusted(endian, el)
                    [] variant = "Double" -> longlong_adjusted(endian, el)
         IN  b \o EncodeElems(variant, Tail(elems), endian)

Err == [ok |-> FALSE]

\* the guard of the Ascii arm: the value is refused when this holds
AsciiRefused(val) == \A i \in 1..Len(val) : is_ascii(val[i])

convert_to_entry(value, tag, endian) ==
    IF value.variant = "Ascii" /\ AsciiRefused(value.elems)
    THEN Err
    ELSE [ok |-> TRUE,
          entry |-> [tag |-> tag,
                     count |-> Len(value.elems),
                     payload |-> CASE value.variant = "Ascii" -> Concat(value.elems)
                                   [] value.variant \in {"Byte", "Undefined"} -> value.elems
                                   [] OTHER -> EncodeElems(value.variant, value.elems, endian),
                     value_type |-> value_type_id(value)]]

\* ------------------------------------------------------------------------
\* Writer: layout (writer.rs, write_ifd_tag and TIFFWriter::write)
\* ------------------------------------------------------------------------
\* `len as i16`
AsI16(n) == LET m == n % 65536 IN IF m >= 32768 THEN m - 65536 ELSE m

\* 4i16 - (len as i16): overflows when the difference leaves the i16 range
DiffExact(len) == 4 - AsI16(len)
DiffOverflows(len) == DiffExact(len) > 32767
\* the value of diff where no overflow check stops the subtraction
Diff(len) == IF DiffOverflows(len) THEN DiffExact(len) - 65536 ELSE DiffExact(len)

\* the payload goes into the record (diff >= 0) or behind the directory
IsInlined(len) == Diff(len) >= 0

\* a slot that puts the padding before the payload
SlotBytesPaddedLeft(payload, endian, next_data_cursor) ==
    IF IsInlined(Len(payload))
    THEN Zeros(Diff(Len(payload))) \o payload
    ELSE long_adjusted(endian, next_data_cursor)

\* bytes 8.. of one entry record: the payload and its padding, or an offset
SlotBytes(payload, endian, next_data_cursor) ==
    IF IsInlined(Len(payload))
    THEN payload \o Zeros(Diff(Len(payload)))
    ELSE long_adjusted(endian, next_data_cursor)

\* number of bytes one entry adds to the output for a payload of len bytes
RecordLen(len) == 8 + (IF IsInlined(len) THEN len + Diff(len) ELSE 4)

\* the loop of write_ifd_tag. Result: the bytes of the records, the entries
\* placed out of line, and for each of those the offset announced.
RECURSIVE WriteIfdTagLoop(_, _, _)
WriteIfdTagLoop(ifd, endian, next_data_cursor) ==
    IF ifd = <<>>
    THEN [tag_data |-> <<>>, big_entries |-> <<>>, slots |-> <<>>]
    ELSE LET entry == Head(ifd)
             inl == IsInlined(Len(entry.payload))
             rest == WriteIfdTagLoop(Tail(ifd), endian,
                        IF inl THEN next_data_cursor
                        ELSE next_data_cursor + Len(entry.payload))
         IN  [tag_data |->
                  short_adjusted(endian, tag_value(entry.tag))
                  \o short_adjusted(endian, entry.value_type)
                  \o long_adjusted(endian, entry.count)
                  \o SlotBytes(entry.payload, endian, next_data_cursor)
                  \o rest.tag_data,
              big_entries |-> IF inl THEN rest.big_entries
                              ELSE <<entry>> \o rest.big_entries,
              slots |-> IF inl THEN rest.slots
                        ELSE <<[offset |-> next_data_cursor,
                                len |-> Len(entry.payload),
                                at |-> 0]>> \o rest.slots]

write_ifd_tag(position, endian, ifd) ==
    WriteIfdTagLoop(ifd, endian, position + Len(ifd) * ENTRY_SIZE + 4)

\* the subtraction of write_ifd_tag panics in a build with overflow checks
IfdPanics(ifd, build) ==
    build = "debug" /\ \E i \in 1..Len(ifd) : DiffOverflows(Len(ifd[i].payload))

\* the next-IFD offset of a directory
NextOffset(last, position, big_len) ==
    LET next_available_space == IF last THEN 0 ELSE position + big_len + 1
    IN  IF next_available_space % 2 # 0
        THEN next_available_space + 1
        ELSE next_available_space

\* a write that queues the payloads and never appends them to the buffer
AllBigDropped(big_entries) == <<>>

\* all_big: the payloads of the entries placed out of line, one after another
AllBig(big_entries) ==
    Concat([i \in 1..Len(big_entries) |-> big_entries[i].payload])

\* what Vec::append leaves in all_big, whose length is then added to position
AllBigLenAfterAppend(all_big) == 0

\* where each of the payloads of lengths lens lies when the first lies at at
RECURSIVE PlacedAt(_, _)
PlacedAt(slots, at) ==
    IF slots = <<>> THEN <<>>
    ELSE <<[Head(slots) EXCEPT !.at = at]>> \o PlacedAt(Tail(slots), at + Head(slots).len)

\* write_header_magic and the first offset
HeaderBytes(endian) ==
    short_adjusted(endian, IF endian = "Little" THEN TIFF_LE ELSE TIFF_BE)
    \o short_adjusted(endian, TIFF_MAGIC)
    \o long_adjusted(endian, 8)

OffsetLimit == 2147483647   \* 2^31 - 1: position + 1 > 1 << 31

\* the loop of write over the directories, each given as its entries in the
\* order the sort left them. Result: the buffer, the position, whether the
\* loop returned early, and per directory (dirs) where its entry count lies
\* (start), how many records it has and how many bytes they take, the next
\* offset it announces, and for each payload placed out of line the offset
\* announced, its length and where it lies (at).
RECURSIVE WriteLoop(_, _, _, _, _, _)
WriteLoop(sorted, index, endian, buff, position, dirs) ==
    IF index > Len(sorted)
    THEN [write_buff |-> buff, position |-> position, early |-> FALSE, dirs |-> dirs]
    ELSE IF position > OffsetLimit
    THEN [write_buff |-> buff, position |-> position, early |-> TRUE, dirs |-> dirs]
    ELSE LET entries == sorted[index]
             odd == position % 2 # 0
             buff1 == IF odd THEN buff \o <<0>> ELSE buff
             pos1 == IF odd THEN position + 1 ELSE position
             buff2 == buff1 \o short_adjusted(endian, Len(entries))
             pos2 == pos1 + 2
             w == write_ifd_tag(pos2, endian, entries)
             pos3 == pos2 + Len(entries) * ENTRY_SIZE
             all_big == AllBig(w.big_entries)
             next == NextOffset(index = Len(sorted), pos3, Len(all_big))
             buff3 == buff2 \o w.tag_data \o long_adjusted(endian, next) \o all_big
             pos4 == pos3 + 4 + AllBigLenAfterAppend(all_big)
         IN  WriteLoop(sorted, index + 1, endian, buff3, pos4,
                       Append(dirs, [start |-> Len(buff1),
                                     count |-> Len(entries),
                                     records |-> Len(w.tag_data),
                                     next |-> next,
                                     slots |-> PlacedAt(w.slots, Len(buff3) - Len(all_big))]))

\* TIFFWriter::write up to the call of the sink
WriteBytes(sorted, endian, write_buff, position) ==
    WriteLoop(sorted, 1, endian, write_buff \o HeaderBytes(endian), position + 8, <<>>)


\* ------------------------------------------------------------------------
\* Reader: the byte source (std::io::Read + Seek over a byte string)
\* ------------------------------------------------------------------------
\* read_exact of n bytes at cursor at: possible when the bytes are there
CanRead(src, at, n) == at >= 0 /\ n >= 0 /\ at <= Len(src) /\ n <= Len(src) - at
ReadAt(src, at, n) == SubSeq(src, at + 1, at + n)

\* a cursor behind the end of the source: every read there fails
PastEnd(src) == Len(src) + 1

\* SeekFrom::Current(n) from cursor at, for n a u32 (every cursor behind the
\* end of the source is held as PastEnd)
SeekCurrent(src, at, n) ==
    IF n < 0 \/ n > Len(src) \/ at > Len(src) THEN PastEnd(src) ELSE at + n

\* SeekFrom::Start(n), for n a u32
SeekStart(src, n) == IF n < 0 \/ n > Len(src) THEN PastEnd(src) ELSE n

\* ------------------------------------------------------------------------
\* Reader: directory chain (reader.rs, IFDIterator)
\* ------------------------------------------------------------------------
\* the entry loop of next: the map built from the count records at cursor at,
\* a later record replacing an earlier one of the same tag; no map when a
\* record cannot be read whole
ReadEntries(src, endian, at, count, map) ==
    IF ~CanRead(src, at, ENTRY_SIZE * count) THEN Err
    ELSE LET Record(k) == at + ENTRY_SIZE * (k - 1)
             TagOf(k) == TagFrom(short_from_bytes(endian, ReadAt(src, Record(k), 2), FALSE))
             Entry(k) ==
                 [tag |-> TagOf(k),
                  value_type |-> short_from_bytes(endian, ReadAt(src, Record(k) + 2, 2), FALSE),
                  count |-> long_from_bytes(endian, ReadAt(src, Record(k) + 4, 4)),
                  value_offset |-> long_from_bytes(endian, ReadAt(src, Record(k) + 8, 4))]
             Last(t) == CHOOSE k \in 1..count :
                            TagOf(k) = t /\ \A j \in (k + 1)..count : TagOf(j) # t
             tags == {TagOf(k) : k \in 1..count}
         IN  [ok |-> TRUE,
              entries |-> [t \in DOMAIN map \cup tags |->
                              IF t \in tags THEN Entry(Last(t)) ELSE map[t]],
              at |-> at + ENTRY_SIZE * count]

\* where next seeks to before it reads the entry count
NextSeek(src, it) ==
    IF it.position = 0
    THEN SeekStart(src, it.next_entry)
    ELSE SeekCurrent(src, it.cursor, it.next_entry)

\* IFDIterator::new
IteratorNew(first_ifd_offset) ==
    [cursor |-> 0, next_entry |-> first_ifd_offset, position |-> 0]

\* what IFDIterator::next does to the iterator state it = [cursor,
\* next_entry, position], and whether it yields a directory: no directory when
\* the count, a record or the next-IFD field cannot be read, or the count is 0
IteratorAdvance(src, endian, it) ==
    LET at == NextSeek(src, it)
    IN  IF ~CanRead(src, at, 2) THEN [some |-> FALSE]
        ELSE LET entry_count == short_from_bytes(endian, ReadAt(src, at, 2), FALSE)
                 end == at + 2 + ENTRY_SIZE * entry_count
             IN  IF entry_count < 1 THEN [some |-> FALSE]
                 ELSE IF ~CanRead(src, at + 2, ENTRY_SIZE * entry_count)
                 THEN [some |-> FALSE]
                 ELSE IF ~CanRead(src, end, 4) THEN [some |-> FALSE]
                 ELSE [some |-> TRUE,
                       entry_count |-> entry_count,
                       it |-> [cursor |-> end + 4,
                               next_entry |-> long_from_bytes(endian, ReadAt(src, end, 4)),
                               position |-> at]]

\* IFDIterator::next: the directory yielded and the iterator state left
IteratorNext(src, endian, it) ==
    LET a == IteratorAdvance(src, endian, it)
    IN  IF ~a.some THEN [some |-> FALSE]
        ELSE [some |-> TRUE,
              ifd |-> ReadEntries(src, endian, a.it.position + 2,
                                  a.entry_count, <<>>).entries,
              it |-> a.it]

\* Iterator::collect: every IFD that next yields until it yields None
RECURSIVE Collect(_, _, _)
Collect(src, endian, it) ==
    LET n == IteratorNext(src, endian, it)
    IN  IF n.some THEN <<n.ifd>> \o Collect(src, endian, n.it) ELSE <<>>

\* ------------------------------------------------------------------------
\* Reader: TIFFReader::new
\* ------------------------------------------------------------------------
\* a byte-order mark judged by its first byte alone
OrderRawFirstByte(order_bytes) == order_bytes[1] * 257

\* u16::to_be(u16::from_bytes(order_bytes)) on the host
OrderRaw(order_bytes) == U16FromBE(order_bytes)

\* the header as TIFFReader::new reads it: byte order, magic, first offset
Header(src) ==
    IF ~CanRead(src, 0, 2) THEN [ok |-> FALSE, error |-> "Io"]
    ELSE IF OrderRaw(ReadAt(src, 0, 2)) \notin {TIFF_LE, TIFF_BE}
    THEN [ok |-> FALSE, error |-> "InvalidTIFFFile"]
    ELSE LET order == IF OrderRaw(ReadAt(src, 0, 2)) = TIFF_LE THEN "Little" ELSE "Big"
         IN  IF ~CanRead(src, 2, 2) THEN [ok |-> FALSE, error |-> "Io"]
             ELSE IF short_from_bytes(order, ReadAt(src, 2, 2), FALSE) # TIFF_MAGIC
             THEN [ok |-> FALSE, error |-> "InvalidTIFFFile"]
             ELSE IF ~CanRead(src, 4, 4) THEN [ok |-> FALSE, error |-> "Io"]
             ELSE [ok |-> TRUE, order |-> order,
                   offset |-> long_from_bytes(order, ReadAt(src, 4, 4))]

TIFFReaderNew(src) ==
    LET h == Header(src)
    IN  IF ~h.ok THEN h
        ELSE LET ifds_ == Collect(src, h.order, IteratorNew(h.offset))
             IN  IF ifds_ = <<>>
                 THEN [ok |-> FALSE, error |-> "InvalidTIFFFile"]
                 ELSE [ok |-> TRUE, ifds |-> ifds_, endian |-> h.order,
                       current_directory_index |-> 0]

\* ------------------------------------------------------------------------
\* Reader: decoding of an entry (reader.rs, impl TIFFValue)
\* ------------------------------------------------------------------------
\* entry.count * k in u32 arithmetic, for k in {2, 4, 8}
MulOverflows(count, k) ==
    \/ count < 0
    \/ k = 4 /\ count >= 1073741824
    \/ k = 8 /\ count >= 536870912
MulWrapped(count, k) ==
    LET lo == Lo16(count) * k
        hi == (Hi16(count) * k + lo \div 65536) % 65536
    IN  Word32(hi, lo % 65536)

Ok(v) == [status |-> "ok", value |-> v]
Fail == [status |-> "err"]
Panic == [status |-> "panic"]

\* read_n_bytes, for size a usize that came from a u32
read_n_bytes(src, entry, size) ==
    IF size >= 0 /\ size <= 4
    THEN Ok(to_bytes(entry.value_offset))
    ELSE IF CanRead(src, SeekStart(src, entry.value_offset), size)
    THEN Ok(ReadAt(src, entry.value_offset, size))
    ELSE Fail

\* slice.split(|e| *e == sep): the runs between the separators
RECURSIVE SplitOn(_, _, _)
SplitOn(bytes, sep, run) ==
    IF bytes = <<>> THEN <<run>>
    ELSE IF Head(bytes) = sep THEN <<run>> \o SplitOn(Tail(bytes), sep, <<>>)
    ELSE SplitOn(Tail(bytes), sep, Append(run, Head(bytes)))

\* String::from_utf8 accepts the bytes
RECURSIVE Utf8Valid(_)
Utf8Valid(b) ==
    LET Cont(i) == i <= Len(b) /\ b[i] >= 128 /\ b[i] <= 191
        Rest(n) == Utf8Valid(SubSeq(b, n + 1, Len(b)))
    IN  IF b = <<>> THEN TRUE
        ELSE IF b[1] < 128 THEN Rest(1)
        ELSE IF b[1] >= 194 /\ b[1] <= 223 THEN Cont(2) /\ Rest(2)
        ELSE IF b[1] >= 224 /\ b[1] <= 239
        THEN /\ Cont(2) /\ Cont(3)
             /\ (b[1] = 224 => b[2] >= 160)
             /\ (b[1] = 237 => b[2] <= 159)
             /\ Rest(3)
        ELSE IF b[1] >= 240 /\ b[1] <= 244
        THEN /\ Cont(2) /\ Cont(3) /\ Cont(4)
             /\ (b[1] = 240 => b[2] >= 144)
             /\ (b[1] = 244 => b[2] <= 143)
             /\ Rest(4)
        ELSE FALSE

\* the byte read_ascii splits on: b'0'
AsciiSeparator == 48

read_ascii(src, entry) ==
    LET r == read_n_bytes(src, entry, entry.count)
        runs == SplitOn(r.value, AsciiSeparator, <<>>)
    IN  IF r.status # "ok" THEN r
        ELSE IF \A i \in 1..Len(runs) : Utf8Valid(runs[i]) THEN Ok(runs)
        ELSE Fail

\* the size of the payload: count * k, which a build with overflow checks
\* refuses to wrap
SizeOf(entry, k, build) ==
    IF MulOverflows(entry.count, k) /\ build = "debug"
    THEN [panic |-> TRUE]
    ELSE [panic |-> FALSE, size |-> MulWrapped(entry.count, k)]

\* chunks(width) followed by copy_from_slice into a buffer of width bytes
WholeChunks(bytes, width) == Len(bytes) % width = 0

\* whether the words read_short and read_long take from the slot are reversed
SlotReversed(endian, size, limit) == endian = "Big" /\ size >= 0 /\ size <= limit

read_short(src, entry, endian, signed, build) ==
    LET sz == SizeOf(entry, 2, build)
        r == read_n_bytes(src, entry, sz.size)
        bytes == IF SlotReversed(endian, sz.size, 4) THEN Reverse(r.value) ELSE r.value
        cs == Chunks(bytes, 2)
    IN  IF sz.panic THEN Panic
        ELSE IF r.status # "ok" THEN r
        ELSE IF ~WholeChunks(bytes, 2) THEN Panic
        ELSE Ok([i \in 1..Len(cs) |-> short_from_bytes(endian, cs[i], signed)])

read_long(src, entry, endian, build) ==
    LET sz == SizeOf(entry, 4, build)
        r == read_n_bytes(src, entry, sz.size)
        bytes == IF SlotReversed(endian, sz.size, 4) THEN Reverse(r.value) ELSE r.value
        cs == Chunks(bytes, 4)
    IN  IF sz.panic THEN Panic
        ELSE IF r.status # "ok" THEN r
        ELSE IF ~WholeChunks(bytes, 4) THEN Panic
        ELSE Ok([i \in 1..Len(cs) |-> long_from_bytes(endian, cs[i])])

read_long_long(src, entry, endian, build) ==
    LET sz == SizeOf(entry, 8, build)
        r == read_n_bytes(src, entry, sz.size)
        bytes == IF SlotReversed(endian, sz.size, 8) THEN Reverse(r.value) ELSE r.value
        cs == Chunks(bytes, 8)
    IN  IF sz.panic THEN Panic
        ELSE IF r.status # "ok" THEN r
        ELSE IF ~WholeChunks(bytes, 8) THEN Panic
        ELSE Ok([i \in 1..Len(cs) |-> longlong_from_bytes(endian, cs[i])])

read_rational(src, entry, endian, build) ==
    LET sz == SizeOf(entry, 8, build)
        r == read_n_bytes(src, entry, sz.size)
        cs == Chunks(r.value, 4)
        elements == [i \in 1..Len(cs) |-> long_from_bytes(endian, cs[i])]
        pairs == Chunks(elements, 2)
    IN  IF sz.panic THEN Panic
        ELSE IF r.status # "ok" THEN r
        ELSE IF ~WholeChunks(r.value, 4) THEN Panic
        ELSE IF \E i \in 1..Len(pairs) : Len(pairs[i]) < 2 THEN Panic
        ELSE Ok([i \in 1..Len(pairs) |-> Rational(pairs[i][1], pairs[i][2])])

\* the variant and the elements decoded from the bytes r of a byte type
Wrap(variant, r) == IF r.status = "ok" THEN Ok(Val(variant, r.value)) ELSE r

AsI8(b) == IF b >= 128 THEN b - 256 ELSE b

new_from_entry(src, entry, endian, build) ==
    CASE entry.value_type = 1 ->
            Wrap("Byte", read_n_bytes(src, entry, entry.count))
      [] entry.value_type = 2 -> Wrap("Ascii", read_ascii(src, entry))
      [] entry.value_type = 3 -> Wrap("Short", read_short(src, entry, endian, FALSE, build))
      [] entry.value_type = 4 -> Wrap("Long", read_long(src, entry, endian, build))
      [] entry.value_type = 5 -> Wrap("Rational", read_rational(src, entry, endian, build))
      [] entry.value_type = 6 ->
            LET r == read_n_bytes(src, entry, entry.count)
            IN  IF r.status = "ok"
                THEN Ok(Val("SByte", [i \in 1..Len(r.value) |-> AsI8(r.value[i])]))
                ELSE r
      [] entry.value_type = 8 -> Wrap("SShort", read_short(src, entry, endian, TRUE, build))
      [] entry.value_type = 9 -> Wrap("SLong", read_long(src, entry, endian, build))
      [] entry.value_type = 10 -> Wrap("SRational", read_rational(src, entry, endian, build))
      [] entry.value_type = 11 -> Wrap("Float", read_long(src, entry, endian, build))
      [] entry.value_type = 12 -> Wrap("Double", read_long_long(src, entry, endian, build))
      [] OTHER -> Wrap("Undefined", read_n_bytes(src, entry, entry.count))

\* ------------------------------------------------------------------------
\* Fields (tag.rs): ImageWidth, a short_long_value!
\* ------------------------------------------------------------------------
None == [some |-> FALSE]
Some(v) == [some |-> TRUE, v |-> v]

\* ImageWidth::encode_to_value
ImageWidthEncode(w) ==
    IF w <= 65535 THEN Val("Short", <<w>>) ELSE Val("Long", <<w>>)

\* ImageWidth::decode_from_value
ImageWidthDecode(value) ==
    IF value.variant \in {"Short", "Long"} THEN Some(value.elems[1]) ELSE None

\* the tag looked for in every directory, the first that holds it answering
ValueForTagAnyDirectory(src, rd, d, tag, build) ==
    LET holders == {i \in 1..Len(rd.ifds) : tag \in DOMAIN rd.ifds[i]}
    IN  IF holders = {} THEN [status |-> "absent"]
        ELSE LET first == CHOOSE i \in holders : \A j \in holders : i <= j
             IN  new_from_entry(src, rd.ifds[first][tag], rd.endian, build)

\* IFD::get_entry_from_tag followed by new_from_entry, in directory d
ValueForTag(src, rd, d, tag, build) ==
    IF tag \notin DOMAIN rd.ifds[d + 1] THEN [status |-> "absent"]
    ELSE new_from_entry(src, rd.ifds[d + 1][tag], rd.endian, build)

\* TIFFReader::get_field::<ImageWidth> with directory d current
GetImageWidth(src, rd, d, build) ==
    LET r == ValueForTag(src, rd, d, ImageWidth, build)
    IN  IF r.status = "panic" THEN Panic
        ELSE IF r.status = "ok" THEN ImageWidthDecode(r.value)
        ELSE None


\* ------------------------------------------------------------------------
\* Inputs
\* ------------------------------------------------------------------------
\* the widths given to set_field::<ImageWidth>
Widths == {100, 170, 70000}

\* the pairs given to set_directory_field_for_tag; a string is its bytes
RawInputs ==
    { <<Unknown(256), Val("Short", <<1, 2>>)>>,
      <<Unknown(256), Val("Byte", <<1, 2, 3, 4>>)>>,
      <<XResolution, Val("Rational", <<Rational(96, 1)>>)>>,
      <<XResolution, Val("Byte", <<1, 2, 3, 4, 5>>)>>,
      <<XResolution, Val("Double", << <<63, 240, 0, 0, 0, 0, 0, 0>> >>)>>,
      <<Unknown(700), Val("Short", <<1, 2, 3>>)>>,
      <<Unknown(700), Val("Undefined", <<1, 2, 3, 4, 5, 6>>)>>,
      <<Unknown(700), Val("SShort", <<-2>>)>>,
      <<Unknown(700), Val("Ascii", << <<97, 98>> >>)>>,
      <<Unknown(700), Val("Ascii", << <<195, 169>> >>)>> }

\* ------------------------------------------------------------------------
\* State
\* ------------------------------------------------------------------------
VARIABLES
    endian,         \* TIFFWriter.endian
    ifds,           \* TIFFWriter.ifds: a sequence of maps Tag -> entry
    current_index,  \* TIFFWriter.current_index
    write_buff,     \* TIFFWriter.write_buff
    position,       \* TIFFWriter.position, the part of it below 2^31
    position_high,  \* TIFFWriter.position, the multiples of 2^31 in it
    assigned,       \* per directory, the value last set under each tag
    nsets,          \* number of field assignments made
    result,         \* what the last call on the writer returned
    panicked,       \* a call panicked
    sink,           \* the bytes the sink received from write_all
    written,        \* what the last write laid out
    failed,         \* number of writes whose sink refused the bytes
    source,         \* the bytes the reader was made from
    reader,         \* the TIFFReader, or the error of TIFFReader::new
    answer,         \* what the last call on the reader returned
    selected,       \* the index last accepted by set_directory_index
    iter,           \* the IFDIterator being collected by TIFFReader::new
    endian_reader   \* an EndianReader over a Cursor on source

vars == <<endian, ifds, current_index, write_buff, position, position_high,
          assigned, nsets, result, panicked, sink, written, failed, source, reader,
          answer, selected, iter, endian_reader>>

writerVars == <<endian, ifds, current_index, write_buff, position, position_high,
                assigned, nsets, result, panicked, sink, written, failed>>

EmptyMap == <<>>
Put(map, k, v) == [t \in DOMAIN map \cup {k} |-> IF t = k THEN v ELSE map[t]]

NoReader == [ok |-> FALSE, error |-> "none"]
NoAnswer == [call |-> "none"]
NoIterator == [running |-> FALSE, started |-> FALSE]
NoEndianReader == [made |-> FALSE]
NotWritten == [done |-> FALSE]

\* TIFFWriter::new
WriterNew(e) ==
    /\ endian = e
    /\ ifds = <<EmptyMap>>
    /\ current_index = 0
    /\ write_buff = <<>>
    /\ position = 0
    /\ position_high = 0
    /\ assigned = <<EmptyMap>>
    /\ nsets = 0
    /\ result = "none"
    /\ panicked = FALSE
    /\ sink = <<>>
    /\ written = NotWritten
    /\ failed = 0

Init ==
    /\ \E e \in Endians : WriterNew(e)
    /\ source = <<>>
    /\ reader = NoReader
    /\ answer = NoAnswer
    /\ selected = 0
    /\ iter = NoIterator
    /\ endian_reader = NoEndianReader

\* ------------------------------------------------------------------------
\* Writer operations
\* ------------------------------------------------------------------------
\* the writer before its first successful write
InUse == ~panicked /\ ~written.done

\* the writer at any time, followed for MaxAfter calls after a write
MaxAfter == 1
Reusable == ~panicked /\ (written.done => written.after < MaxAfter)

\* the record of the last write, one more call having been made since
Later(w) == IF w.done THEN [w EXCEPT !.after = @ + 1] ELSE w

\* TIFFWriter::insert_directory_at_index
InsertDirectoryAtIndex(ifd) ==
    /\ Len(ifds) < MaxDirs
    /\ written' = Later(written)
    /\ IF ifd > Len(ifds)
       THEN /\ panicked' = TRUE
            /\ UNCHANGED <<ifds, assigned>>
       ELSE /\ ifds' = SubSeq(ifds, 1, ifd) \o <<EmptyMap>> \o SubSeq(ifds, ifd + 1, Len(ifds))
            /\ assigned' = SubSeq(assigned, 1, ifd) \o <<EmptyMap>>
                              \o SubSeq(assigned, ifd + 1, Len(assigned))
            /\ UNCHANGED panicked
    /\ UNCHANGED <<endian, current_index, write_buff, position, position_high,
                   nsets, result, sink, failed, source, reader,
                   answer, selected, iter, endian_reader>>

\* set_current_directory_index refusing an index only when it is past the
\* directory count
SetCurrentDirectoryIndexLax(index) ==
    /\ written' = Later(written)
    /\ IF index > Len(ifds)
       THEN /\ panicked' = TRUE
            /\ UNCHANGED current_index
       ELSE /\ current_index' = index
            /\ UNCHANGED panicked
    /\ UNCHANGED <<endian, ifds, write_buff, position, position_high, assigned,
                   nsets, result, sink, failed, source, reader,
                   answer, selected, iter, endian_reader>>

\* TIFFWriter::set_current_directory_index
SetCurrentDirectoryIndex(index) ==
    /\ written' = Later(written)
    /\ IF index > Len(ifds) - 1
       THEN /\ panicked' = TRUE
            /\ UNCHANGED current_index
       ELSE /\ current_index' = index
            /\ UNCHANGED panicked
    /\ UNCHANGED <<endian, ifds, write_buff, position, position_high, assigned,
                   nsets, result, sink, failed, source, reader,
                   answer, selected, iter, endian_reader>>

\* TIFFWriter::set_directory_field_for_tag
SetDirectoryFieldForTag(tag, value) ==
    /\ nsets < MaxSets
    /\ written' = Later(written)
    /\ nsets' = nsets + 1
    /\ LET c == convert_to_entry(value, tag, endian)
       IN  IF c.ok
           THEN /\ ifds' = [ifds EXCEPT ![current_index + 1] = Put(@, tag, c.entry)]
                /\ assigned' = [assigned EXCEPT ![current_index + 1] = Put(@, tag, value)]
                /\ result' = "Ok"
           ELSE /\ result' = "EncodingError"
                /\ UNCHANGED <<ifds, assigned>>
    /\ UNCHANGED <<endian, current_index, write_buff, position, position_high,
                   panicked, sink, failed, source, reader,
                   answer, selected, iter, endian_reader>>

\* TIFFWriter::set_field::<ImageWidth>
SetField(w) == SetDirectoryFieldForTag(ImageWidth, ImageWidthEncode(w))

\* the orders sort_by can leave the entries of a map in: ascending tag_value,
\* entries of equal tag_value in the order the map iterated them
RECURSIVE Perms(_)
Perms(S) ==
    IF S = {} THEN {<<>>}
    ELSE UNION {{<<x>> \o p : p \in Perms(S \ {x})} : x \in S}

SortedBy(p) == \A i, j \in 1..Len(p) : i < j => tag_value(p[i]) <= tag_value(p[j])

SortedEntries(ifd) ==
    {[i \in 1..Len(p) |-> ifd[p[i]]] : p \in {q \in Perms(DOMAIN ifd) : SortedBy(q)}}

RECURSIVE SortedIfds(_)
SortedIfds(dirs) ==
    IF dirs = <<>> THEN {<<>>}
    ELSE {<<e>> \o r : e \in SortedEntries(Head(dirs)), r \in SortedIfds(Tail(dirs))}

\* position is 2^31 or more once the 8 bytes of the header are counted
HeaderPassesLimit == position_high > 0 \/ position > OffsetLimit - 8

\* TIFFWriter::write by a writer whose position passes 2^31 with the header:
\* the loop returns Ok(()) at its first directory and the sink is not called
WriteBeyondLimit ==
    /\ HeaderPassesLimit
    /\ write_buff' = write_buff \o HeaderBytes(endian)
    /\ IF position > OffsetLimit - 8
       THEN /\ position' = position - (OffsetLimit - 7)
            /\ position_high' = position_high + 1
       ELSE /\ position' = position + 8
            /\ UNCHANGED position_high
    /\ result' = "Ok"
    /\ written' = [done |-> TRUE, early |-> TRUE, model |-> assigned,
                   sorted |-> <<>>, dirs |-> <<>>,
                   after |-> IF written.done THEN written.after + 1 ELSE 0]
    /\ UNCHANGED <<endian, ifds, current_index, assigned, nsets, panicked, sink,
                   failed, source, reader,
                   answer, selected, iter, endian_reader>>

\* TIFFWriter::write, by a writer whose position stays below 2^31 with the
\* header, to a sink whose write_all takes every byte (accepts) or takes none
\* and returns an error. sink is every byte handed over so far.
WriteTo(accepts) ==
    /\ ~HeaderPassesLimit
    /\ UNCHANGED position_high
    /\ \E sorted \in SortedIfds(ifds) :
          \E build \in IF \E i \in 1..Len(sorted) : IfdPanics(sorted[i], "debug")
                       THEN Builds ELSE {"release"} :
          IF \E i \in 1..Len(sorted) : IfdPanics(sorted[i], build)
          THEN /\ panicked' = TRUE
               /\ written' = Later(written)
               /\ UNCHANGED <<write_buff, position, result, sink, failed>>
          ELSE LET w == WriteBytes(sorted, endian, write_buff, position)
               IN  /\ write_buff' = w.write_buff
                   /\ position' = w.position
                   /\ UNCHANGED panicked
                   /\ IF w.early \/ accepts
                      THEN /\ result' = "Ok"
                           /\ sink' = IF w.early THEN sink ELSE sink \o w.write_buff
                           /\ written' = [done |-> TRUE, early |-> w.early,
                                          model |-> assigned, sorted |-> sorted,
                                          dirs |-> w.dirs,
                                          after |-> IF written.done
                                                    THEN written.after + 1 ELSE 0]
                           /\ UNCHANGED failed
                      ELSE /\ result' = "Io"
                           /\ failed' = failed + 1
                           /\ written' = Later(written)
                           /\ UNCHANGED sink
    /\ UNCHANGED <<endian, ifds, current_index, assigned, nsets, source, reader,
                   answer, selected, iter, endian_reader>>

Write == WriteTo(TRUE)

\* write to a sink that fails, at most MaxFailed times
MaxFailed == 1
WriteFails == failed < MaxFailed /\ WriteTo(FALSE)

\* the number of writes of one empty directory, 14 bytes each, that bring
\* position to 2^31 - 2
FailedWritesOfEmpty == (OffsetLimit - 1) \div 14

\* that many writes in a row to a sink that fails, by a new writer. The bytes
\* they append to write_buff are left out: position is past the limit from
\* here on, so that no later write hands the buffer to a sink.
WriteFailsOften ==
    /\ failed = 0 /\ position = 0 /\ position_high = 0
    /\ ifds = <<EmptyMap>>
    /\ position' = 14 * FailedWritesOfEmpty
    /\ failed' = FailedWritesOfEmpty
    /\ result' = "Io"
    /\ UNCHANGED <<endian, ifds, current_index, write_buff, position_high, assigned,
                   nsets, panicked, sink, written, source, reader,
                   answer, selected, iter, endian_reader>>

\* ------------------------------------------------------------------------
\* Reader operations
\* ------------------------------------------------------------------------
\* TIFFReader::new on the bytes the writer gave to the sink
ReaderNew ==
    /\ written.done /\ ~written.early
    /\ reader = NoReader
    /\ source' = sink
    /\ reader' = TIFFReaderNew(sink)
    /\ UNCHANGED <<answer, selected, iter, endian_reader>>
    /\ UNCHANGED writerVars

\* an index refused only when it is past the directory count
IndexPastLen(index, len) == index > len

\* the guard of set_directory_index, for len the length of self.ifds (a
\* TIFFReader holds at least one directory, so len - 1 does not underflow)
IndexOutOfBounds(index, len) == index > len - 1

Answer(call, res) == [call |-> call, result |-> res]

\* TIFFReader::set_directory_index
SetDirectoryIndex(index) ==
    /\ reader.ok
    /\ IF IndexOutOfBounds(index, Len(reader.ifds))
       THEN /\ answer' = Answer("set_directory_index", "DirectoryIndexOutOfBounds")
            /\ UNCHANGED <<reader, selected>>
       ELSE /\ reader' = [reader EXCEPT !.current_directory_index = index]
            /\ answer' = Answer("set_directory_index", "Ok")
            /\ selected' = index
    /\ UNCHANGED <<source, iter, endian_reader>>
    /\ UNCHANGED writerVars

Next ==
    \/ \E i \in 0..MaxDirs : InUse /\ InsertDirectoryAtIndex(i)
    \/ \E i \in 0..MaxDirs : InUse /\ SetCurrentDirectoryIndex(i)
    \/ \E w \in Widths : InUse /\ SetField(w)
    \/ \E in \in RawInputs : InUse /\ SetDirectoryFieldForTag(in[1], in[2])
    \/ InUse /\ Write
    \/ ReaderNew
    \/ \E i \in 0..MaxDirs : SetDirectoryIndex(i)

Spec == Init /\ [][Next]_vars


\* ------------------------------------------------------------------------
\* The emitted stream, read back field by field
\* ------------------------------------------------------------------------
\* write handed bytes to the sink
Emitted == written.done /\ ~written.early

\* a reader was asked for on the emitted bytes
ReadBack == reader # NoReader

\* the first-IFD offset of the header in the sink
HeaderOffset == long_from_bytes(endian, ReadAt(sink, 4, 4))

\* the entry count written for directory i (1-based)
CountField(i) ==
    short_from_bytes(endian, ReadAt(sink, written.dirs[i].start, 2), FALSE)

\* where record k (1-based) of directory i begins, the records being 12 bytes
RecordAt(i, k) == written.dirs[i].start + 2 + ENTRY_SIZE * (k - 1)

\* the tag number in record k of directory i
TagField(i, k) == short_from_bytes(endian, ReadAt(sink, RecordAt(i, k), 2), FALSE)

\* the 4-byte slot of record k of directory i
SlotField(i, k) == ReadAt(sink, RecordAt(i, k) + 8, 4)

\* the next-IFD offset field of directory i
NextField(i) ==
    long_from_bytes(endian,
        ReadAt(sink, written.dirs[i].start + 2 + written.dirs[i].records, 4))

\* the directories written, and the records of each
Dirs == 1..Len(written.dirs)
Records(i) == 1..Len(written.sorted[i])

\* ------------------------------------------------------------------------
\* C1 - write-then-read round trip
\* ------------------------------------------------------------------------
\* C1: once a reader has been asked for on the bytes write produced, then for
\* every directory and every tag that was set the reader exists, reports the
\* writer's byte order, has that directory, and decodes under the tag of
\* that number, in either build, the value that was set: same variant, same
\* number of elements, same elements.
C1_RoundTrip ==
    ReadBack =>
        \A d \in 1..Len(written.model) :
           \A tag \in DOMAIN written.model[d] :
              /\ reader.ok
              /\ reader.endian = endian
              /\ d <= Len(reader.ifds)
              /\ \A build \in Builds :
                    ValueForTag(source, reader, d - 1, TagFrom(tag_value(tag)), build)
                        = Ok(written.model[d][tag])

\* ------------------------------------------------------------------------
\* C2 - multi-directory round trip
\* ------------------------------------------------------------------------
\* every directory of the model holds exactly one field, an ImageWidth
OnlyWidths ==
    \A d \in 1..Len(written.model) : DOMAIN written.model[d] = {ImageWidth}

\* C2: when the writer held N >= 2 directories, each with a single
\* ImageWidth, the reader made from the output reports exactly N directories
\* and get_field on directory i returns the i-th width that was set.
C2_MultiDirectory ==
    (ReadBack /\ Len(written.model) >= 2 /\ OnlyWidths) =>
        /\ reader.ok
        /\ Len(reader.ifds) = Len(written.model)
        /\ \A d \in 1..Len(written.model) : \A build \in Builds :
              GetImageWidth(source, reader, d - 1, build)
                  = Some(written.model[d][ImageWidth].elems[1])

\* ------------------------------------------------------------------------
\* C3 - next-IFD offsets
\* ------------------------------------------------------------------------
\* C3: in the emitted stream the next-IFD offset field of every directory but
\* the last holds the offset at which the entry count of the following
\* directory lies, and the field of the last directory holds 0.
C3_NextOffsets ==
    Emitted =>
        \A i \in Dirs :
            IF i = Len(written.dirs)
            THEN NextField(i) = 0
            ELSE NextField(i) = written.dirs[i + 1].start

\* ------------------------------------------------------------------------
\* C4 - order of the records
\* ------------------------------------------------------------------------
\* C4: in every emitted directory the tag numbers of the records ascend
\* strictly, so that no two records of a directory carry the same number.
C4_StrictlyAscending ==
    Emitted =>
        \A i \in Dirs : \A k \in Records(i) :
            k > 1 => TagField(i, k - 1) < TagField(i, k)

\* ------------------------------------------------------------------------
\* C6 - alignment of the payloads placed out of line
\* ------------------------------------------------------------------------
\* C6: every payload placed out of line begins at an even offset of the
\* emitted stream, and the offset announced for it is even.
C6_EvenOffsets ==
    Emitted =>
        \A i \in Dirs : \A j \in 1..Len(written.dirs[i].slots) :
            /\ written.dirs[i].slots[j].at % 2 = 0
            /\ written.dirs[i].slots[j].offset % 2 = 0


\* ------------------------------------------------------------------------
\* C7 - the offsets emitted lie inside the stream
\* ------------------------------------------------------------------------
\* the offset held by the slot of record k of directory i
SlotOffset(i, k) == long_from_bytes(endian, SlotField(i, k))

\* offset off is at least 8 and lies in the stream handed to the sink
InStream(off) == off >= 8 /\ off < Len(sink)

\* C7: in the stream handed to the sink the first-IFD offset of the header,
\* every next-IFD offset that is not 0 and every slot of an entry placed out
\* of line hold an offset that is >= 8 and smaller than the length of the
\* stream, and the payload announced at a slot ends inside the stream.
C7_OffsetsInStream ==
    Emitted =>
        /\ InStream(HeaderOffset)
        /\ \A i \in Dirs : NextField(i) # 0 => InStream(NextField(i))
        /\ \A i \in Dirs : \A k \in Records(i) :
              LET L == Len(written.sorted[i][k].payload)
              IN  L > 4 => /\ InStream(SlotOffset(i, k))
                           /\ SlotOffset(i, k) + L <= Len(sink)

\* a stream of two directories in which the first announces the second and
\* the last places a payload out of line
C7_Witness ==
    /\ Emitted
    /\ Len(written.dirs) = 2
    /\ NextField(1) # 0
    /\ \E k \in Records(2) : Len(written.sorted[2][k].payload) > 4

\* ------------------------------------------------------------------------
\* C9 - the bytes of a directory of inline fields
\* ------------------------------------------------------------------------
\* the model of one directory holding ImageWidth = 170 and nothing else
Width170 == <<ImageWidth :> Val("Short", <<170>>)>>

\* the 26 bytes 4D 4D 00 2A 00 00 00 08 00 01 01 00 00 03 00 00 00 01 00 AA
\* 00 00 00 00 00 00
Bytes170 ==
    <<77, 77, 0, 42, 0, 0, 0, 8, 0, 1, 1, 0, 0, 3, 0, 0, 0, 1, 0, 170,
      0, 0, 0, 0, 0, 0>>

\* the w bytes of the number n, in the byte order e
Num(e, n, w) ==
    LET be == [i \in 1..w |-> (n \div (256 ^ (w - i))) % 256]
    IN  IF e = "Big" THEN be ELSE [i \in 1..w |-> be[w + 1 - i]]

\* the 12 bytes expected for an entry whose payload fits the slot
InlineRecord(e, entry) ==
    Num(e, entry.tag.n, 2) \o Num(e, entry.value_type, 2) \o Num(e, entry.count, 4)
    \o entry.payload \o [i \in 1..(4 - Len(entry.payload)) |-> 0]

\* the stream expected for one directory of inline entries in the order given
InlineStream(e, entries) ==
    (IF e = "Big" THEN <<77, 77>> ELSE <<73, 73>>) \o Num(e, 42, 2) \o Num(e, 8, 4)
    \o Num(e, Len(entries), 2)
    \o Concat([k \in 1..Len(entries) |-> InlineRecord(e, entries[k])])
    \o <<0, 0, 0, 0>>

\* the model is one directory and every payload of it fits the slot
OneInlineDirectory ==
    /\ Len(written.model) = 1
    /\ \A k \in Records(1) : Len(written.sorted[1][k].payload) <= 4

\* C9: a big-endian writer holding the single field ImageWidth = 170 hands
\* the sink exactly the 26 bytes above, and the reader made from them reports
\* big endianness, one directory and ImageWidth = 170; and for any single
\* directory of inline fields the stream is the byte-order mark, 42, offset
\* 8, the entry count, one 12-byte record per field that was set in ascending
\* order of tag number, and a next-IFD offset of 0, in the writer's order.
C9_ByteExact ==
    /\ (Emitted /\ endian = "Big" /\ written.model = Width170) => sink = Bytes170
    /\ (ReadBack /\ endian = "Big" /\ written.model = Width170) =>
          /\ reader.ok
          /\ reader.endian = "Big"
          /\ Len(reader.ifds) = 1
          /\ \A build \in Builds : GetImageWidth(source, reader, 0, build) = Some(170)
    /\ (Emitted /\ OneInlineDirectory) =>
          /\ sink = InlineStream(endian, written.sorted[1])
          /\ Len(sink) = 14 + 12 * Cardinality(DOMAIN written.model[1])
          /\ {written.sorted[1][k].tag : k \in Records(1)} = DOMAIN written.model[1]
          /\ \A k \in Records(1) :
                k > 1 => written.sorted[1][k - 1].tag.n <= written.sorted[1][k].tag.n

\* the big-endian writer wrote the single field ImageWidth = 170 and the
\* reader was made from its bytes
C9_Witness ==
    /\ ReadBack
    /\ reader.ok
    /\ endian = "Big"
    /\ written.model = Width170
    /\ nsets = 1

\* ------------------------------------------------------------------------
\* C10 - independence of the byte order
\* ------------------------------------------------------------------------
\* the entries a writer of byte order e holds after the assignments of model
EntriesFor(model, e) ==
    [d \in 1..Len(model) |->
        [t \in DOMAIN model[d] |-> convert_to_entry(model[d][t], t, e).entry]]

\* the streams a writer of byte order e can emit after those assignments
StreamsFor(model, e) ==
    {WriteBytes(sorted, e, <<>>, 0).write_buff : sorted \in SortedIfds(EntriesFor(model, e))}

\* what the reader decodes from the stream: per directory and tag the value
Decoded(bytes, build) ==
    LET rd == TIFFReaderNew(bytes)
    IN  IF ~rd.ok THEN rd
        ELSE [d \in 1..Len(rd.ifds) |->
                [t \in DOMAIN rd.ifds[d] |->
                    new_from_entry(bytes, rd.ifds[d][t], rd.endian, build)]]

\* C10: for the assignments a writer was given, what the reader decodes from
\* the output of a little-endian writer equals, directory by directory and
\* tag by tag, what it decodes from the output of a big-endian writer.
C10_ByteOrderIndependent ==
    Emitted =>
        \A build \in Builds :
        \A le \in StreamsFor(written.model, "Little") :
        \A be \in StreamsFor(written.model, "Big") :
            Decoded(le, build) = Decoded(be, build)


\* ------------------------------------------------------------------------
\* The writer on payloads of many lengths
\* ------------------------------------------------------------------------
\* the lengths up to MaxSmallLen, and the lengths around 2^15 and 2^16
MaxSmallLen == 8
PayloadLengths ==
    (0..MaxSmallLen) \cup {32767, 32768, 32772, 32773, 40000, 65535, 65536, 65541}

\* set_directory_field_for_tag with an Undefined value of len bytes
SetPayload(len) == SetDirectoryFieldForTag(Unknown(700), Val("Undefined", Zeros(len)))

NextInline ==
    \/ \E len \in PayloadLengths : InUse /\ SetPayload(len)
    \/ InUse /\ Write

SpecInline == Init /\ [][NextInline]_vars

\* ------------------------------------------------------------------------
\* C5 - the inlining rule
\* ------------------------------------------------------------------------
\* C5: in the emitted stream every record takes 12 bytes; the slot of an
\* entry whose payload has L <= 4 bytes holds the payload followed by 4 - L
\* zero bytes and the payload is not placed out of line; the slot of an entry
\* with L > 4 holds an offset and the L bytes at that offset are the payload.
C5_InliningRule ==
    Emitted =>
        \A i \in Dirs :
            /\ written.dirs[i].records = ENTRY_SIZE * written.dirs[i].count
            /\ Len(written.dirs[i].slots)
                  = Cardinality({k \in Records(i) : Len(written.sorted[i][k].payload) > 4})
            /\ \A k \in Records(i) :
                  LET payload == written.sorted[i][k].payload
                      L == Len(payload)
                  IN  IF L <= 4
                      THEN SlotField(i, k) = payload \o [j \in 1..(4 - L) |-> 0]
                      ELSE /\ CanRead(sink, SlotOffset(i, k), L)
                           /\ ReadAt(sink, SlotOffset(i, k), L) = payload

\* ------------------------------------------------------------------------
\* The reader on byte strings that no writer produced
\* ------------------------------------------------------------------------
\* a directory of one entry, ImageWidth = Short 170, announcing next
WidthDirectory(e, next) ==
    Num(e, 1, 2) \o Num(e, 256, 2) \o Num(e, 3, 2) \o Num(e, 1, 4)
    \o Num(e, 170, 2) \o <<0, 0>> \o Num(e, next, 4)

\* a directory of one entry under the private tag 700, announcing next
EntryDirectory(e, type, count, slot, next) ==
    Num(e, 1, 2) \o Num(e, 700, 2) \o Num(e, type, 2) \o Num(e, count, 4)
    \o slot \o Num(e, next, 4)

\* directories whose entry has type code 7 or a code no type has, with its
\* payload in the slot or behind the directory, at offset 26
UntypedBodies ==
    UNION {{ EntryDirectory(e, 7, 2, <<1, 2, 0, 0>>, 0),
             EntryDirectory(e, 13, 4, <<1, 2, 3, 4>>, 0),
             EntryDirectory(e, 0, 3, <<9, 8, 7, 0>>, 0),
             EntryDirectory(e, 7, 6, Num(e, 26, 4), 0) \o <<1, 2, 3, 4, 5, 6>>,
             EntryDirectory(e, 13, 5, Num(e, 26, 4), 0) \o <<6, 5, 4, 3, 2>> }
           : e \in Endians}

\* directories whose entry is of a byte or numeric type, with the payload in
\* the slot (counts 0 to 4) or behind the directory, at offset 26
TypedBodies ==
    UNION {{ EntryDirectory(e, 1, 1, <<7, 0, 0, 0>>, 0),
             EntryDirectory(e, 1, 3, <<7, 8, 9, 0>>, 0),
             EntryDirectory(e, 1, 4, <<1, 2, 3, 4>>, 0),
             EntryDirectory(e, 6, 1, <<200, 0, 0, 0>>, 0),
             EntryDirectory(e, 3, 1, <<1, 2, 0, 0>>, 0),
             EntryDirectory(e, 3, 2, <<1, 2, 3, 4>>, 0),
             EntryDirectory(e, 8, 1, <<255, 254, 0, 0>>, 0),
             EntryDirectory(e, 4, 1, <<1, 2, 3, 4>>, 0),
             EntryDirectory(e, 11, 1, <<1, 2, 3, 4>>, 0),
             EntryDirectory(e, 1, 0, <<0, 0, 0, 0>>, 0),
             EntryDirectory(e, 3, 0, <<0, 0, 0, 0>>, 0),
             EntryDirectory(e, 4, 0, <<0, 0, 0, 0>>, 0),
             EntryDirectory(e, 3, 3, Num(e, 26, 4), 0) \o <<1, 2, 3, 4, 5, 6>>,
             EntryDirectory(e, 4, 2, Num(e, 26, 4), 0) \o <<1, 2, 3, 4, 5, 6, 7, 8>>,
             EntryDirectory(e, 1, 5, Num(e, 26, 4), 0) \o <<1, 2, 3, 4, 5>> }
           : e \in Endians}

\* directories whose entry is of type Ascii: 'a' 'b' NUL in the slot, and the
\* dates '2010' NUL and '1999' NUL behind the directory, at offset 26
AsciiBodies ==
    UNION {{ EntryDirectory(e, 2, 3, <<97, 98, 0, 0>>, 0),
             EntryDirectory(e, 2, 5, Num(e, 26, 4), 0) \o <<50, 48, 49, 48, 0>>,
             EntryDirectory(e, 2, 5, Num(e, 26, 4), 0) \o <<49, 57, 57, 57, 0>> }
           : e \in Endians}

\* directories whose entry is of type Double: one element, 1.0 as the file's
\* byte order writes it, and two elements, behind the directory at offset 26
DoubleBodies ==
    UNION {{ EntryDirectory(e, 12, 1, Num(e, 26, 4), 0)
                 \o longlong_adjusted(e, <<63, 240, 0, 0, 0, 0, 0, 0>>),
             EntryDirectory(e, 12, 1, Num(e, 26, 4), 0)
                 \o <<1, 2, 3, 4, 5, 6, 7, 8>>,
             EntryDirectory(e, 12, 2, Num(e, 26, 4), 0)
                 \o <<1, 2, 3, 4, 5, 6, 7, 8, 9, 10, 11, 12, 13, 14, 15, 16>> }
           : e \in Endians}

CraftedOrders == {<<73, 73>>, <<77, 77>>, <<73, 77>>, <<77, 73>>, <<0, 0>>}
CraftedMagics == {<<42, 0>>, <<0, 42>>, <<43, 0>>, <<0, 0>>}
CraftedFirsts == {<<8, 0, 0, 0>>, <<0, 0, 0, 8>>, <<0, 0, 0, 0>>}
CraftedBodies ==
    { <<>>, <<0, 0>>, <<0>>,
      WidthDirectory("Little", 0), WidthDirectory("Big", 0),
      SubSeq(WidthDirectory("Little", 0), 1, 10),
      SubSeq(WidthDirectory("Big", 0), 1, 14),
      WidthDirectory("Little", 2) \o <<0, 0>> \o WidthDirectory("Little", 0),
      WidthDirectory("Big", 2) \o <<0, 0>> \o WidthDirectory("Big", 0) }
    \cup UntypedBodies
    \cup TypedBodies
    \cup AsciiBodies
    \cup DoubleBodies
    \cup UNION {{ EntryDirectory(e, 7, 2, <<1, 2, 0, 0>>, 2) \o <<0, 0>>
                      \o WidthDirectory(e, 0),
                  WidthDirectory(e, 2) \o <<0, 0>>
                      \o EntryDirectory(e, 7, 2, <<1, 2, 0, 0>>, 0) }
                : e \in Endians}

\* the byte strings given to TIFFReader::new
CraftedSources ==
    {<<>>, <<73>>, <<73, 73>>, <<73, 73, 42>>, <<77, 77, 0, 42>>, <<73, 73, 42, 0, 8, 0>>}
    \cup {o \o m \o f \o b : o \in CraftedOrders, m \in CraftedMagics,
                             f \in CraftedFirsts, b \in CraftedBodies}

InitReader ==
    /\ WriterNew("Little")
    /\ source \in CraftedSources
    /\ reader = NoReader
    /\ answer = NoAnswer
    /\ selected = 0
    /\ iter = NoIterator
    /\ endian_reader = NoEndianReader

\* TIFFReader::new on the crafted bytes
ReaderNewFrom ==
    /\ ~written.done
    /\ reader = NoReader
    /\ reader' = TIFFReaderNew(source)
    /\ UNCHANGED <<source, answer, selected, iter, endian_reader>>
    /\ UNCHANGED writerVars

\* TIFFValue::new_from_entry on the entry the current directory holds under
\* tag, as get_field runs it
NewFromEntry(tag, build) ==
    /\ reader.ok
    /\ reader.current_directory_index < Len(reader.ifds)
    /\ tag \in DOMAIN reader.ifds[reader.current_directory_index + 1]
    /\ answer' = [call |-> "new_from_entry", tag |-> tag,
                  result |-> ValueForTag(source, reader,
                                         reader.current_directory_index, tag, build)]
    /\ UNCHANGED <<source, reader, selected, iter, endian_reader>>
    /\ UNCHANGED writerVars

\* TIFFReader::get_field::<ImageWidth>
GetField(build) ==
    /\ reader.ok
    /\ answer' = Answer("get_field",
                        IF reader.current_directory_index >= Len(reader.ifds)
                        THEN Panic
                        ELSE GetImageWidth(source, reader,
                                           reader.current_directory_index, build))
    /\ UNCHANGED <<source, reader, selected, iter, endian_reader>>
    /\ UNCHANGED writerVars

NextReader ==
    \/ ReaderNewFrom
    \/ \E build \in Builds : GetField(build)
    \/ \E i \in 0..MaxDirs : SetDirectoryIndex(i)
    \/ \E tag \in {ImageWidth, Unknown(700)}, build \in Builds : NewFromEntry(tag, build)

SpecReader == InitReader /\ [][NextReader]_vars

\* ------------------------------------------------------------------------
\* C8 - what TIFFReader::new rejects
\* ------------------------------------------------------------------------
\* the first two bytes are neither 'II' nor 'MM'
BadOrder(src) ==
    ~(Len(src) >= 2 /\ <<src[1], src[2]>> \in {<<73, 73>>, <<77, 77>>})

\* the two bytes after the mark are not 42 in the order the mark announces
BadMagic(src) ==
    /\ ~BadOrder(src)
    /\ ~(Len(src) >= 4 /\ <<src[3], src[4]>> =
            IF src[1] = 73 THEN <<42, 0>> ELSE <<0, 42>>)

\* the header is well formed and no entry count, or a count of 0, lies at
\* the offset it announces
NoDirectory(src) ==
    /\ ~BadOrder(src) /\ ~BadMagic(src)
    /\ \/ Len(src) < 8
       \/ LET off == IF src[1] = 73
                     THEN src[5] + 256 * src[6] + 65536 * src[7] + 16777216 * src[8]
                     ELSE src[8] + 256 * src[7] + 65536 * src[6] + 16777216 * src[5]
          IN  \/ off + 2 > Len(src)
              \/ src[off + 1] = 0 /\ src[off + 2] = 0

\* the input 49 49 2A 00 08 00 00 00 00 00
EmptyDirectoryFile == <<73, 73, 42, 0, 8, 0, 0, 0, 0, 0>>

\* C8: TIFFReader::new gives an error and no reader when the first two bytes
\* are neither 'II' nor 'MM', when the magic in the announced order is not
\* 42, and when no directory is found; every reader it gives holds at least
\* one directory.
C8_Rejects ==
    ReadBack =>
        /\ BadOrder(source) => ~reader.ok
        /\ BadMagic(source) => ~reader.ok
        /\ NoDirectory(source) => ~reader.ok
        /\ source = EmptyDirectoryFile => ~reader.ok
        /\ reader.ok => Len(reader.ifds) >= 1

\* TIFFReader::new was given 49 49 2A 00 08 00 00 00 00 00 and refused it
C8_Witness ==
    /\ ReadBack
    /\ source = EmptyDirectoryFile
    /\ reader = [ok |-> FALSE, error |-> "InvalidTIFFFile"]


\* ------------------------------------------------------------------------
\* The writer beyond its first write, with a sink that can fail
\* ------------------------------------------------------------------------
NextReuse ==
    \/ \E i \in 0..MaxDirs : Reusable /\ InsertDirectoryAtIndex(i)
    \/ \E i \in 0..MaxDirs : Reusable /\ SetCurrentDirectoryIndex(i)
    \/ \E w \in Widths : Reusable /\ SetField(w)
    \/ \E in \in RawInputs : Reusable /\ SetDirectoryFieldForTag(in[1], in[2])
    \/ Reusable /\ Write
    \/ Reusable /\ WriteBeyondLimit
    \/ Reusable /\ WriteFails
    \/ Reusable /\ WriteFailsOften

SpecReuse == Init /\ [][NextReuse]_vars

\* ------------------------------------------------------------------------
\* C11 - write again after a write that failed
\* ------------------------------------------------------------------------
\* C11: when the first write that succeeds comes after a write whose sink
\* failed, the bytes it hands to the sink are a stream that a first write of
\* the same field assignments emits.
C11_RetryEmitsFirstStream ==
    (Emitted /\ failed > 0 /\ written.after = 0) =>
        sink \in StreamsFor(written.model, endian)

\* ------------------------------------------------------------------------
\* C12 - the writer after a successful write
\* ------------------------------------------------------------------------
\* C12: once a write has succeeded no step changes the directory tables of
\* the writer and no step hands further bytes to a sink.
C12_WrittenIsFinal ==
    [][Emitted => (ifds' = ifds /\ sink' = sink)]_vars


\* ------------------------------------------------------------------------
\* C13 - a layout that passes 2^31
\* ------------------------------------------------------------------------
\* C13: a write whose position reaches 2^31 returns the error OutOfBounds
\* and hands nothing to the sink.
C13_OutOfBoundsReturned ==
    (written.done /\ position_high > 0) => (result = "OutOfBounds" /\ sink = <<>>)


\* ------------------------------------------------------------------------
\* C14 - a directory index out of range given to the writer
\* ------------------------------------------------------------------------
\* C14: insert_directory_at_index(i) with i greater than the number of
\* directories and set_current_directory_index(i) with i not smaller than
\* it return the error OutOfBounds without panicking and leave the
\* directories and the current index as they were.
C14_IndexErrorReturned ==
    [][\A i \in 0..MaxDirs :
          /\ (InsertDirectoryAtIndex(i) /\ i > Len(ifds)) =>
                (~panicked' /\ result' = "OutOfBounds"
                 /\ ifds' = ifds /\ current_index' = current_index)
          /\ (SetCurrentDirectoryIndex(i) /\ i >= Len(ifds)) =>
                (~panicked' /\ result' = "OutOfBounds"
                 /\ ifds' = ifds /\ current_index' = current_index)]_vars

\* ------------------------------------------------------------------------
\* C15 - what set_directory_index answers
\* ------------------------------------------------------------------------
\* C15: set_directory_index(i) answers DirectoryIndexOutOfBounds exactly when
\* i is at least the number of directories, and then leaves the current
\* directory index as it was; otherwise it answers Ok and the current
\* directory index is i.
C15_SetDirectoryIndex ==
    [][\A i \in 0..MaxDirs :
          (answer'.call = "set_directory_index" /\ SetDirectoryIndex(i)) =>
              IF i >= Len(reader.ifds)
              THEN /\ answer'.result = "DirectoryIndexOutOfBounds"
                   /\ reader'.current_directory_index = reader.current_directory_index
              ELSE /\ answer'.result = "Ok"
                   /\ reader'.current_directory_index = i]_vars

\* a reader of two directories moved to directory 1 and then refused an index
\* equal to the directory count
C15_Witness ==
    /\ reader.ok
    /\ Len(reader.ifds) = 2
    /\ reader.current_directory_index = 1
    /\ answer.call = "set_directory_index"
    /\ answer.result = "DirectoryIndexOutOfBounds"

\* ------------------------------------------------------------------------
\* C16 - entries of type 7 or of no known type
\* ------------------------------------------------------------------------
\* the entry that the last new_from_entry decoded
AnsweredEntry == reader.ifds[reader.current_directory_index + 1][answer.tag]

\* the payload of an entry as the file holds it: the first count bytes of the
\* value slot, or the count bytes at the offset
RawPayload(entry) ==
    IF entry.count <= 4
    THEN SubSeq(Num(reader.endian, entry.value_offset, 4), 1, entry.count)
    ELSE ReadAt(source, entry.value_offset, entry.count)

\* C16: an entry whose type code is 7 or lies outside 1..12 decodes to
\* Undefined holding exactly its raw payload bytes in file order: the first
\* count bytes of the slot when count <= 4, the count bytes at the offset
\* otherwise, in files of either byte order.
C16_UndefinedKeepsRawBytes ==
    (/\ answer.call = "new_from_entry"
     /\ AnsweredEntry.value_type \notin ((1..12) \ {7})
     /\ AnsweredEntry.count >= 0
     /\ AnsweredEntry.count > 4 =>
            CanRead(source, AnsweredEntry.value_offset, AnsweredEntry.count))
        => answer.result = Ok(Val("Undefined", RawPayload(AnsweredEntry)))

\* ------------------------------------------------------------------------
\* C17 - get_field addresses the current directory
\* ------------------------------------------------------------------------
\* the directory chosen by the last accepted set_directory_index
SelectedDirectory == reader.ifds[selected + 1]

\* the width a one-element Short entry stores in the first two slot bytes
StoredWidth(entry) ==
    IF reader.endian = "Little" THEN Lo16(entry.value_offset) ELSE Hi16(entry.value_offset)

\* what get_field::<ImageWidth> is to return
ExpectedWidth ==
    IF ImageWidth \in DOMAIN SelectedDirectory
    THEN Some(StoredWidth(SelectedDirectory[ImageWidth]))
    ELSE None

MaxYielded == 3

\* in this traversal the source is held as its first bytes and the number of
\* zero bytes that follow them
Padded(head, zeros) == [head |-> head, zeros |-> zeros]

\* a file whose first-IFD offset is 0: the directory read at byte 0 takes the
\* byte-order mark 'II' as its entry count, and the file is long enough to
\* hold that many records and a next-IFD field, which is 0
LoopingFile == Padded(<<73, 73, 42, 0, 0, 0, 0, 0>>, 2 + ENTRY_SIZE * TIFF_LE + 4 - 8)
LoopingBytes == LoopingFile.head \o Zeros(LoopingFile.zeros)

\* the bytes of a file
Content(file) ==
    IF file = LoopingFile THEN LoopingBytes ELSE file.head \o Zeros(file.zeros)

\* the crafted byte strings, chains of two directories at absolute offsets,
\* a directory followed by bytes that read as a directory, and chains that
\* lead back to a directory
ShortSources ==
    CraftedSources
    \cup UNION {{ Num(e, IF e = "Little" THEN TIFF_LE ELSE TIFF_BE, 2) \o Num(e, 42, 2)
                     \o Num(e, 8, 4) \o body
                  : body \in { WidthDirectory(e, 0) \o WidthDirectory(e, 0),
                               WidthDirectory(e, 26) \o WidthDirectory(e, 0),
                               WidthDirectory(e, 8),
                               WidthDirectory(e, 26) \o WidthDirectory(e, 8) } }
                : e \in Endians}

\* the byte strings traversed, with no padding but for LoopingFile
TraversalSources ==
    {LoopingFile} \cup {Padded(bytes, 0) : bytes \in ShortSources}

InitTraverse ==
    /\ WriterNew("Little")
    /\ source \in TraversalSources
    /\ reader = NoReader
    /\ answer = NoAnswer
    /\ selected = 0
    /\ iter = NoIterator
    /\ endian_reader = NoEndianReader

\* TIFFReader::new up to IFDIterator::new
IFDIteratorNew ==
    /\ ~iter.started
    /\ Header(Content(source)).ok
    /\ iter' = [running |-> TRUE, started |-> TRUE,
                endian |-> Header(Content(source)).order,
                it |-> IteratorNew(Header(Content(source)).offset),
                position |-> 0,
                yielded |-> 0,
                parity |-> 0]
    /\ UNCHANGED <<source, reader, answer, selected, endian_reader>>
    /\ UNCHANGED writerVars

\* one call of next made by collect: position is where the call left the
\* cursor before reading the entry count, yielded the directories collected
\* so far (counted up to MaxYielded), parity the calls made so far, modulo 2
IFDIteratorNext ==
    /\ iter.running
    /\ LET n == IteratorAdvance(Content(source), iter.endian, iter.it)
       IN  iter' = IF n.some
                   THEN [iter EXCEPT !.it = n.it,
                                     !.position = NextSeek(Content(source), iter.it),
                                     !.yielded = IF @ < MaxYielded THEN @ + 1 ELSE @,
                                     !.parity = 1 - @]
                   ELSE [iter EXCEPT !.running = FALSE,
                                     !.position = NextSeek(Content(source), iter.it),
                                     !.parity = 1 - @]
    /\ UNCHANGED <<source, reader, answer, selected, endian_reader>>
    /\ UNCHANGED writerVars

NextTraverse ==
    \/ IFDIteratorNew
    \/ IFDIteratorNext

\* collect calls next again as long as the last call yielded a directory
SpecTraverse == InitTraverse /\ [][NextTraverse]_vars /\ WF_vars(IFDIteratorNext)

\* ------------------------------------------------------------------------
\* C18 - the end of the chain
\* ------------------------------------------------------------------------
\* C18: once the next-IFD offset read after a directory's entries is 0, the
\* iterator yields no further directory, whatever bytes follow.
C18_ChainEndsAtZero ==
    [][(iter.running /\ iter.yielded >= 1 /\ iter.it.next_entry = 0)
          => ~iter'.running]_vars

\* ------------------------------------------------------------------------
\* C19 - offsets in the chain are absolute
\* ------------------------------------------------------------------------
\* C19: the first call of next, and every call that follows a next-IFD field
\* other than 0, reads its directory at the offset held in the header or in
\* that field, measured from byte 0 of the source, wherever the cursor stood.
C19_AbsoluteOffsets ==
    [][(/\ iter.running
        /\ iter' # iter
        /\ iter.yielded = 0 \/ iter.it.next_entry # 0)
          => iter'.position = SeekStart(Content(source), iter.it.next_entry)]_vars

\* ------------------------------------------------------------------------
\* C20 - the traversal terminates
\* ------------------------------------------------------------------------
\* C20: on every finite byte source the traversal that TIFFReader::new runs
\* stops after finitely many directories.
C20_TraversalTerminates == iter.running ~> ~iter.running

\* ------------------------------------------------------------------------
\* C21 - decoding of a payload held in the slot
\* ------------------------------------------------------------------------
\* the width in bytes of an element of a byte or numeric type held in a slot
SlotWidth(type) ==
    IF type \in {1, 6, 7} THEN 1 ELSE IF type \in {3, 8} THEN 2 ELSE 4

\* the four bytes of the value slot of an entry, as the file holds them
SlotInFile(entry) == Num(reader.endian, entry.value_offset, 4)

\* the element that the bytes b of the file stand for in an entry of type
ElementOf(type, b) ==
    CASE type \in {1, 7} -> b[1]
      [] type = 6 -> AsI8(b[1])
      [] type = 3 -> short_from_bytes(reader.endian, b, FALSE)
      [] type = 8 -> short_from_bytes(reader.endian, b, TRUE)
      [] OTHER -> long_from_bytes(reader.endian, b)

\* the entry decoded last is of a byte or numeric type and its payload, of at
\* least one element, fits the slot
AnsweredInline ==
    /\ answer.call = "new_from_entry"
    /\ AnsweredEntry.value_type \in {1, 3, 4, 6, 7, 8, 9, 11}
    /\ AnsweredEntry.count >= 1
    /\ AnsweredEntry.count * SlotWidth(AnsweredEntry.value_type) <= 4

\* C21: for an entry whose payload fits the slot, in a file of either byte
\* order, element i of the decoded value is built from the slot bytes at file
\* positions i * width .. (i + 1) * width - 1: a single Byte is the first slot
\* byte, a single Short is decoded from the first two slot bytes.
C21_InlineFileOrder ==
    AnsweredInline =>
        LET w == SlotWidth(AnsweredEntry.value_type)
        IN  /\ answer.result.status = "ok"
            /\ Len(answer.result.value.elems) >= AnsweredEntry.count
            /\ \A i \in 1..AnsweredEntry.count :
                   answer.result.value.elems[i] =
                       ElementOf(AnsweredEntry.value_type,
                                 SubSeq(SlotInFile(AnsweredEntry), (i - 1) * w + 1, i * w))

\* ------------------------------------------------------------------------
\* C22 - the number of elements decoded
\* ------------------------------------------------------------------------
\* C22: the value decoded from an entry of a byte or numeric type with element
\* count n has exactly n elements, for every n >= 0, also when the payload is
\* shorter than the slot.
C22_ElementCount ==
    (/\ answer.call = "new_from_entry"
     /\ AnsweredEntry.value_type \in (1..12) \ {2}
     /\ AnsweredEntry.count >= 0
     /\ answer.result.status = "ok")
        => Len(answer.result.value.elems) = AnsweredEntry.count

\* ------------------------------------------------------------------------
\* C23 - where an Ascii payload is split
\* ------------------------------------------------------------------------
\* the strings of a payload: its runs between NUL bytes, a payload that ends
\* in NUL having no further string behind that NUL
NulTerminated(payload) ==
    LET runs == SplitOn(payload, 0, <<>>)
    IN  IF runs[Len(runs)] = <<>> THEN SubSeq(runs, 1, Len(runs) - 1) ELSE runs

\* C23: an Ascii payload decodes to its NUL-terminated runs, split on the NUL
\* byte and on no other byte: 'a' 'b' NUL is the one string 'ab', and a date
\* holding the digit '0' is not split at that digit.
C23_AsciiSplitsOnNul ==
    (/\ answer.call = "new_from_entry"
     /\ AnsweredEntry.value_type = 2
     /\ AnsweredEntry.count >= 1
     /\ AnsweredEntry.count > 4 =>
            CanRead(source, AnsweredEntry.value_offset, AnsweredEntry.count))
        => /\ answer.result.status = "ok"
           /\ answer.result.value.elems = NulTerminated(RawPayload(AnsweredEntry))

\* ------------------------------------------------------------------------
\* C24 - Ascii values given to the writer
\* ------------------------------------------------------------------------
\* the strings, each followed by one NUL byte
NulAfterEach(strings) == Concat([i \in 1..Len(strings) |-> Append(strings[i], 0)])

\* C24: set_directory_field_for_tag with an Ascii value answers Ok when every
\* string is 7-bit ASCII, the stored payload being the strings each followed
\* by one NUL byte, and answers EncodingError, storing nothing, when some
\* string holds a byte that is not ASCII.
C24_AsciiEncoding ==
    [][\A in \in RawInputs :
          (in[2].variant = "Ascii" /\ SetDirectoryFieldForTag(in[1], in[2])) =>
              IF \A i \in 1..Len(in[2].elems) : is_ascii(in[2].elems[i])
              THEN /\ result' = "Ok"
                   /\ in[1] \in DOMAIN ifds'[current_index + 1]
                   /\ ifds'[current_index + 1][in[1]].payload = NulAfterEach(in[2].elems)
              ELSE /\ result' = "EncodingError"
                   /\ ifds' = ifds]_vars

\* ------------------------------------------------------------------------
\* The reader on files whose ImageWidth entry is malformed
\* ------------------------------------------------------------------------
\* a directory of one entry under the tag ImageWidth
WidthEntryDirectory(e, type, count, slot) ==
    Num(e, 1, 2) \o Num(e, 256, 2) \o Num(e, type, 2) \o Num(e, count, 4)
    \o slot \o Num(e, 0, 4)

\* ImageWidth entries of every kind of type code, with count 0, with a count
\* whose payload size passes 2^32, with an offset past the end of the file,
\* and well-formed ones with 8 payload bytes at offset 26
MalformedBodies ==
    UNION {{ WidthEntryDirectory(e, 3, 1, <<1, 2, 0, 0>>),
             WidthEntryDirectory(e, 4, 1, <<1, 2, 3, 4>>),
             WidthEntryDirectory(e, 1, 1, <<7, 0, 0, 0>>),
             WidthEntryDirectory(e, 2, 2, <<97, 0, 0, 0>>),
             WidthEntryDirectory(e, 99, 1, <<7, 0, 0, 0>>),
             WidthEntryDirectory(e, 3, 0, <<0, 0, 0, 0>>),
             WidthEntryDirectory(e, 4, 0, <<0, 0, 0, 0>>),
             WidthEntryDirectory(e, 5, 0, <<0, 0, 0, 0>>),
             WidthEntryDirectory(e, 10, 0, <<0, 0, 0, 0>>),
             WidthEntryDirectory(e, 12, 0, <<0, 0, 0, 0>>),
             WidthEntryDirectory(e, 3, 3, Num(e, 1000, 4)),
             WidthEntryDirectory(e, 4, 2, Num(e, 1000, 4)),
             WidthEntryDirectory(e, 5, 1, Num(e, 1000, 4)),
             WidthEntryDirectory(e, 3, -OffsetLimit - 1, <<0, 0, 0, 0>>),
             WidthEntryDirectory(e, 4, 1073741824, <<0, 0, 0, 0>>),
             WidthEntryDirectory(e, 5, 1, Num(e, 26, 4)) \o <<1, 2, 3, 4, 5, 6, 7, 8>>,
             WidthEntryDirectory(e, 12, 1, Num(e, 26, 4)) \o <<1, 2, 3, 4, 5, 6, 7, 8>>,
             WidthEntryDirectory(e, 4, 2, Num(e, 26, 4)) \o <<1, 2, 3, 4, 5, 6, 7, 8>> }
           : e \in Endians}

MalformedSources ==
    UNION {{ Num(e, IF e = "Little" THEN TIFF_LE ELSE TIFF_BE, 2) \o Num(e, 42, 2)
                 \o Num(e, 8, 4) \o body : body \in MalformedBodies }
           : e \in Endians}

InitMalformed ==
    /\ WriterNew("Little")
    /\ source \in MalformedSources
    /\ reader = NoReader
    /\ answer = NoAnswer
    /\ selected = 0
    /\ iter = NoIterator
    /\ endian_reader = NoEndianReader

SpecMalformed == InitMalformed /\ [][NextReader]_vars

\* ------------------------------------------------------------------------
\* C25 - get_field on a malformed entry
\* ------------------------------------------------------------------------
\* C25: whatever the type code, the count and the offset of the entry,
\* get_field returns Some or None and does not panic.
C25_GetFieldNeverPanics ==
    answer.call = "get_field" => answer.result # Panic


\* ------------------------------------------------------------------------
\* C26 - Double elements and the file's byte order
\* ------------------------------------------------------------------------
\* the 64-bit pattern that the eight payload bytes of element i stand for in
\* the file's byte order
DoubleInFile(entry, i) ==
    longlong_from_bytes(reader.endian,
                        ReadAt(source, entry.value_offset + 8 * (i - 1), 8))

\* C26: element i of the value decoded from a Double entry of count >= 1 is
\* the 64-bit pattern of the eight payload bytes at offset + 8 * i decoded in
\* the file's byte order, the payload not being reordered otherwise; a single
\* Double of a big-endian file decodes to the value that was written.
C26_DoubleFileOrder ==
    (/\ answer.call = "new_from_entry"
     /\ AnsweredEntry.value_type = 12
     /\ AnsweredEntry.count >= 1
     /\ CanRead(source, AnsweredEntry.value_offset, 8 * AnsweredEntry.count))
        => /\ answer.result.status = "ok"
           /\ answer.result.value.variant = "Double"
           /\ Len(answer.result.value.elems) = AnsweredEntry.count
           /\ \A i \in 1..AnsweredEntry.count :
                  answer.result.value.elems[i] = DoubleInFile(AnsweredEntry, i)

\* ------------------------------------------------------------------------
\* C27 - tags as map keys
\* ------------------------------------------------------------------------
\* the tags that are keys of some directory table of the writer
KeysInUse == UNION {DOMAIN ifds[d] : d \in 1..Len(ifds)}

\* C27: two tags are equal exactly when they have the same 16-bit number, and
\* equal tags hash equally, so Unknown(n) for the number n of a well-known tag
\* is the same map key as that tag; Tag::from(n) has the number n.
C27_TagIdentity ==
    \A a \in KeysInUse, b \in KeysInUse :
        /\ (a = b) <=> (tag_value(a) = tag_value(b))
        /\ (a = b) => (TagHash(a) = TagHash(b))
        /\ tag_value(TagFrom(tag_value(a))) = tag_value(a)

\* ------------------------------------------------------------------------
\* EndianReader (endian.rs)
\* ------------------------------------------------------------------------
\* read_exact that takes its bytes at the start of the source, whatever the
\* cursor
read_exact_rewound(src, pos, n) ==
    IF CanRead(src, 0, n) THEN Ok(SubSeq(src, 1, n)) ELSE Fail

\* Cursor::read_exact of n bytes with the cursor at pos
read_exact(src, pos, n) ==
    IF CanRead(src, pos, n) THEN Ok(SubSeq(src, pos + 1, pos + n)) ELSE Fail

\* where read_exact leaves the cursor: behind the bytes it read, or, when it
\* fails, at a place the library does not specify
AfterReadExact(src, pos, n) ==
    IF CanRead(src, pos, n) THEN {pos + n} ELSE pos..Len(src)

\* the byte strings under the cursor
EndianSources ==
    { <<17, 34, 51, 68, 85, 102>>,
      <<>>, <<1>>, <<1, 2, 3>>,
      <<128, 0, 0, 1, 0, 128>>,
      <<255, 254, 253, 252, 251, 250, 249, 248, 247, 246>>,
      <<1, 2, 3, 4, 5, 6, 7, 8, 9, 10, 11, 12, 13, 14, 15, 16>> }

\* EndianReader::new on a cursor at position pos
EndianReaderNewAt(e, pos) == [made |-> TRUE, endian |-> e, position |-> pos]

\* Cursor::new(&bytes) and EndianReader::new(&mut cursor, e)
InitEndian ==
    /\ WriterNew("Little")
    /\ source \in EndianSources
    /\ reader = NoReader
    /\ answer = NoAnswer
    /\ selected = 0
    /\ iter = NoIterator
    /\ \E e \in Endians : endian_reader = EndianReaderNewAt(e, 0)

\* the reader is dropped, cursor.set_position(0), and EndianReader::new with
\* the byte order e
EndianReaderNew(e) ==
    /\ endian_reader.made
    /\ endian_reader' = EndianReaderNewAt(e, 0)
    /\ answer' = NoAnswer
    /\ UNCHANGED <<source, reader, selected, iter>>
    /\ UNCHANGED writerVars

\* what a read answers: the number decoded from the bytes, or the error
ReadResult(r, number) == IF r.status = "ok" THEN Ok(number) ELSE Fail

\* EndianReader::read_short::<u16>
ReadShort ==
    /\ endian_reader.made
    /\ LET r == read_exact(source, endian_reader.position, 2)
       IN  answer' = Answer("read_short",
                            ReadResult(r, short_from_bytes(endian_reader.endian,
                                                        r.value, FALSE)))
    /\ \E p \in AfterReadExact(source, endian_reader.position, 2) :
           endian_reader' = [endian_reader EXCEPT !.position = p]
    /\ UNCHANGED <<source, reader, selected, iter>>
    /\ UNCHANGED writerVars

\* EndianReader::read_long::<u32>
ReadLong ==
    /\ endian_reader.made
    /\ LET r == read_exact(source, endian_reader.position, 4)
       IN  answer' = Answer("read_long",
                            ReadResult(r, long_from_bytes(endian_reader.endian, r.value)))
    /\ \E p \in AfterReadExact(source, endian_reader.position, 4) :
           endian_reader' = [endian_reader EXCEPT !.position = p]
    /\ UNCHANGED <<source, reader, selected, iter>>
    /\ UNCHANGED writerVars

\* EndianReader::read_longlong::<u64>
ReadLongLong ==
    /\ endian_reader.made
    /\ LET r == read_exact(source, endian_reader.position, 8)
       IN  answer' = Answer("read_longlong",
                            ReadResult(r, longlong_from_bytes(endian_reader.endian,
                                                           r.value)))
    /\ \E p \in AfterReadExact(source, endian_reader.position, 8) :
           endian_reader' = [endian_reader EXCEPT !.position = p]
    /\ UNCHANGED <<source, reader, selected, iter>>
    /\ UNCHANGED writerVars

NextEndian ==
    \/ \E e \in Endians : EndianReaderNew(e)
    \/ ReadShort
    \/ ReadLong
    \/ ReadLongLong

SpecEndian == InitEndian /\ [][NextEndian]_vars

\* ------------------------------------------------------------------------
\* C28 - sequential reads in the reader's byte order
\* ------------------------------------------------------------------------
\* the unsigned 16-bit and the 32-bit number that the bytes b stand for, the
\* first byte being the most significant, the 32-bit one in two's complement
FirstByteHighest(b) ==
    IF Len(b) = 2 THEN b[1] * 256 + b[2]
    ELSE AsI8(b[1]) * 16777216 + b[2] * 65536 + b[3] * 256 + b[4]

\* the next n bytes under the cursor, in the order of significance that the
\* reader's byte order gives them
Upcoming(n) ==
    LET b == SubSeq(source, endian_reader.position + 1, endian_reader.position + n)
    IN  IF endian_reader.endian = "Big" THEN b ELSE Reverse(b)

\* a read of n bytes returned the number of the next n bytes and moved the
\* cursor behind them, or returned an error for want of n bytes
ReadInSequence(n) ==
    IF Len(source) - endian_reader.position >= n
    THEN /\ answer'.result.status = "ok"
         /\ answer'.result.value = FirstByteHighest(Upcoming(n))
         /\ endian_reader'.position = endian_reader.position + n
    ELSE answer'.result.status = "err"

\* the bytes of the test in endian.rs, with the cursor at pos
TestBytesAt(pos) ==
    source = <<17, 34, 51, 68, 85, 102>> /\ endian_reader.position = pos

\* C28: read_short and read_long take exactly 2 and 4 bytes at the cursor,
\* successive reads taking consecutive bytes; a big-endian reader has the
\* first byte most significant, a little-endian reader least significant
\* (11 22 33 44 55 66 reads 0x1122 then 0x33445566 in big, 0x2211 then
\* 0x66554433 in little); a read with too few bytes left returns an error.
C28_SequentialReads ==
    [][/\ answer'.call = "read_short" => ReadInSequence(2)
       /\ answer'.call = "read_long" => ReadInSequence(4)
       /\ (answer'.call = "read_short" /\ TestBytesAt(0))
              => answer'.result.value =
                     (IF endian_reader.endian = "Big" THEN 4386 ELSE 8721)
       /\ (answer'.call = "read_long" /\ TestBytesAt(2))
              => answer'.result.value =
                     (IF endian_reader.endian = "Big" THEN 860116326 ELSE 1716864051)
      ]_vars

\* the big-endian reader of the test has read 0x1122 and then 0x33445566
C28_Witness ==
    /\ source = <<17, 34, 51, 68, 85, 102>>
    /\ endian_reader.made
    /\ endian_reader.endian = "Big"
    /\ endian_reader.position = 6
    /\ answer.call = "read_long"
    /\ answer.result = Ok(860116326)

\* ------------------------------------------------------------------------
\* SubfileType (tag.rs)
\* ------------------------------------------------------------------------
SubfileTypes == {"FullResolutionImage", "ReducedResolutionImage", "SinglePageImage"}

\* SubfileType::encode_to_value
SubfileTypeEncode(v) ==
    Some(Val("Short", << CASE v = "FullResolutionImage" -> 1
                           [] v = "ReducedResolutionImage" -> 2
                           [] v = "SinglePageImage" -> 3 >>))

\* SubfileType::decode_from_value: the arms in their order, el[0] and el[3]
\* being indexing that panics out of bounds
SubfileTypeDecode(value) ==
    IF value.variant # "Short" THEN None
    ELSE IF Len(value.elems) < 1 THEN Panic
    ELSE IF value.elems[1] = 1 THEN Some("FullResolutionImage")
    ELSE IF value.elems[1] = 2 THEN Some("ReducedResolutionImage")
    ELSE IF Len(value.elems) < 4 THEN Panic
    ELSE IF value.elems[4] = 3 THEN Some("SinglePageImage")
    ELSE None

\* the values given to decode_from_value: Short vectors of up to MaxShorts
\* elements, some of four elements, and values of other types
MaxShorts == 3
ShortCodes == 0..4
SubfileValues ==
    {Val("Short", el) : el \in UNION {[1..n -> ShortCodes] : n \in 0..MaxShorts}}
    \cup {Val("Short", <<a, 0, 0, b>>) : a \in ShortCodes, b \in ShortCodes}
    \cup {Val("Long", <<1>>), Val("Long", <<3>>), Val("Byte", <<2>>)}

InitSubfile ==
    /\ WriterNew("Little")
    /\ source = <<>>
    /\ reader = NoReader
    /\ answer = NoAnswer
    /\ selected = 0
    /\ iter = NoIterator
    /\ endian_reader = NoEndianReader

\* v.encode_to_value()
EncodeToValue(v) ==
    /\ answer' = [call |-> "encode_to_value", arg |-> v,
                  result |-> SubfileTypeEncode(v)]
    /\ UNCHANGED <<source, reader, selected, iter, endian_reader>>
    /\ UNCHANGED writerVars

\* SubfileType::decode_from_value(&value)
DecodeFromValue(value) ==
    /\ answer' = [call |-> "decode_from_value", arg |-> value,
                  result |-> SubfileTypeDecode(value)]
    /\ UNCHANGED <<source, reader, selected, iter, endian_reader>>
    /\ UNCHANGED writerVars

\* SubfileType::decode_from_value(&v.encode_to_value().unwrap())
EncodeThenDecode(v) ==
    /\ answer' = [call |-> "encode_then_decode", arg |-> v,
                  result |-> SubfileTypeDecode(SubfileTypeEncode(v).v)]
    /\ UNCHANGED <<source, reader, selected, iter, endian_reader>>
    /\ UNCHANGED writerVars

NextSubfile ==
    \/ \E v \in SubfileTypes : EncodeToValue(v)
    \/ \E value \in SubfileValues : DecodeFromValue(value)
    \/ \E v \in SubfileTypes : EncodeThenDecode(v)

SpecSubfile == InitSubfile /\ [][NextSubfile]_vars

\* ------------------------------------------------------------------------
\* C29 - SubfileType round trip
\* ------------------------------------------------------------------------
\* C29: decoding the value that a SubfileType variant encodes to returns that
\* variant, without a panic, for each of the three variants; decoding a Short
\* value whose first element is not 1, 2 or 3 returns None.
C29_SubfileRoundTrip ==
    /\ answer.call = "encode_then_decode" => answer.result = Some(answer.arg)
    /\ (/\ answer.call = "decode_from_value"
        /\ answer.arg.variant = "Short"
        /\ Len(answer.arg.elems) >= 1
        /\ answer.arg.elems[1] \notin {1, 2, 3})
           => answer.result = None

\* ------------------------------------------------------------------------
\* C30 - the writer's current index
\* ------------------------------------------------------------------------
\* C30: as long as no call has panicked the writer has at least one directory
\* and its current index is smaller than the number of directories, so that a
\* field assignment finds its directory; a call that inserts a directory
\* leaves the current index as it was, and an assignment that returns
\* EncodingError leaves every directory table as it was.
C30_WriterIndex ==
    /\ [](~panicked => (Len(ifds) >= 1 /\ current_index < Len(ifds)))
    /\ [][(Len(ifds') # Len(ifds) => current_index' = current_index)
           /\ ((nsets' # nsets /\ result' = "EncodingError") => ifds' = ifds)]_vars

\* the last of several directories is current and holds a field, and the
\* last assignment was refused
C30_Witness ==
    /\ ~panicked
    /\ Len(ifds) >= 2
    /\ current_index = Len(ifds) - 1
    /\ ifds[current_index + 1] # EmptyMap
    /\ result = "EncodingError"

============================================================================
